---- MODULE Spec2Model ----
(***************************************************************************)
(* Model of the CasaFlow loan decision engine.                             *)
(*                                                                         *)
(*   services/ai_analysis_engine.py    CasaFlowAIAnalyzer (self-contained) *)
(*   services/application_processor.py ApplicationProcessor (pipeline)     *)
(*                                                                         *)
(* Conventions.  Money is held in paise (1/100 rupee) so that the halves   *)
(* and fractions the code computes with Decimal stay integers.  A Python   *)
(* value that may be None is a sequence: <<>> is None, <<v>> is the value  *)
(* v.  A dict is a record; a key the caller left out is a field that is    *)
(* not in its DOMAIN.                                                      *)
(***************************************************************************)
EXTENDS Integers, Sequences, FiniteSets, TLC

VARIABLES
    application_data,   \* analyze_application's argument (the caller's dict)
    analysis,           \* the accumulator dict the checks write into
    pc,                 \* the method analyze_application runs next
    raised,             \* the exception that left analyze_application, or ""
    input_at_call,      \* application_data as it was when the call began
    history,            \* outcomes of the calls made before on this analyzer
    db,                 \* the committed rows: the application and its report
    session,            \* db.session: the loaded objects with their pending changes
    application_id,     \* process_application's argument
    credit_risk_result, \* what calculate_credit_risk returned, or None
    ai_report,          \* what _generate_ai_analysis returned, or None
    decision,           \* what _make_decision returned, or None
    result,             \* what process_application returned, or None
    ppc,                \* the statement process_application runs next
    error,              \* the exception the except clause of line 44 caught
    exceptions,         \* every exception raised since the call began
    service_outcome,    \* how the credit-risk service answered in this call
    db_at_call,         \* db as it was when the call began
    runs                \* calls of process_application begun so far

avars == <<application_data, analysis, pc, raised, input_at_call, history>>

pvars == <<db, session, application_id, credit_risk_result, ai_report, decision,
           result, ppc, error, exceptions, service_outcome, db_at_call, runs>>

vars == <<avars, pvars>>

----------------------------------------------------------------------------
(* Python values *)

None == <<>>

Some(v) == <<v>>

\* dict.get(k, default)
Get(d, k, default) == IF k \in DOMAIN d THEN d[k] ELSE default

\* dict.get(k): None when the key is not there
GetOptional(d, k) == IF k \in DOMAIN d THEN Some(d[k]) ELSE None

Min(a, b) == IF a <= b THEN a ELSE b

Max(a, b) == IF a >= b THEN a ELSE b

Paise(rupees) == rupees * 100

\* floor(x * n / d) for x >= 0, without leaving 32 bits when n * d does not
MulFrac(x, n, d) == (x \div d) * n + ((x % d) * n) \div d

\* n / d rounded to an integer, ties to even: format(value, '.0f')
RoundHalfEven(n, d) ==
    LET q == n \div d
        r == n % d
    IN  IF 2 * r > d \/ (2 * r = d /\ q % 2 = 1) THEN q + 1 ELSE q

\* f"{amount:,.0f}" of an amount: whole rupees
FormatRupees(paise) == RoundHalfEven(paise, 100)

----------------------------------------------------------------------------
(* CasaFlowAIAnalyzer.__init__: self.risk_thresholds *)

cibil_min == 750

\* loan_to_value_max = 0.8, in hundredths
loan_to_value_max == 80

(* _check_loan_affordability: r = 0.085 / 12, n = 60.  The annuity factor
   k = r (1+r)^n / ((1+r)^n - 1) is 0.0205165313270512..., and its inverse
   is 48.7411826131393...; both are applied digit group by digit group. *)

\* P * k, in paise, for a principal P in paise
CalculatedEmi(principal) ==
    MulFrac(principal, 2, 100) + MulFrac(principal, 5, 10000)
        + MulFrac(principal, 165, 10000000)
        + ((principal \div 1000000) * 313) \div 10000

\* obligation / k, in paise
SuggestedPrincipal(obligation) ==
    MulFrac(obligation, 48741, 1000) + MulFrac(obligation, 183, 1000000)

----------------------------------------------------------------------------
(* analyze_application, lines 15-23: the fresh accumulator *)

NewAnalysis ==
    [ rejection_reasons      |-> <<>>,
      recommendations        |-> <<>>,
      alternative_offers     |-> <<>>,
      financial_health_score |-> 0,
      generated_explanation  |-> <<>>,
      status                 |-> "APPROVED",
      risk_level             |-> "LOW" ]

Text(t) == [text |-> t, args |-> <<>>]

Reason(f, s, d, i) == [factor |-> f, severity |-> s, description |-> d, impact |-> i]

Recommendation(a, p, d, t) == [action |-> a, priority |-> p, description |-> d, timeline |-> t]

AddReasonFirst(a, r) == [a EXCEPT !.rejection_reasons = <<r>> \o @]

AddReason(a, r) == [a EXCEPT !.rejection_reasons = Append(@, r)]

AddRecommendation(a, r) == [a EXCEPT !.recommendations = Append(@, r)]

AddOffer(a, o) == [a EXCEPT !.alternative_offers = Append(@, o)]

----------------------------------------------------------------------------
(* The four rule checks *)

check_credit_profile(d, a) ==
    LET cibil_score == Get(d, "cibil_score", None)
    IN  IF cibil_score = None \/ cibil_score[1] < 10
        THEN AddRecommendation(
                 AddReason(a, Reason("Credit History", "High",
                     Text("Unable to verify credit history or insufficient credit data"),
                     "Cannot assess repayment behavior")),
                 Recommendation("Build Credit History", "High",
                     "Start with secured credit card and make timely payments",
                     "6-12 months"))
        ELSE IF cibil_score[1] < cibil_min
        THEN AddRecommendation(
                 AddReason(a, Reason("Credit Score", "Medium",
                     [text |-> "CIBIL score of {} below minimum requirement of {}",
                      args |-> <<cibil_score[1], cibil_min>>],
                     "Higher risk of default")),
                 Recommendation("Improve Credit Score", "High",
                     "Pay existing debts on time and reduce credit utilization",
                     "3-6 months"))
        ELSE a

check_loan_affordability_falls_through(d, a) ==
    LET monthly_salary == Paise(Get(d, "monthly_salary", 0))
        existing_emi   == Paise(Get(d, "existing_emi", 0))
        loan_amount    == Paise(Get(d, "loan_amount", 0))
        total_emi_obligation == monthly_salary \div 2 - existing_emi
        calculated_emi == CalculatedEmi(loan_amount)
        a1 == IF total_emi_obligation <= 0
              THEN AddReason(a, Reason("Debt Burden", "High",
                       Text("Existing EMI obligations exceed affordable limits"),
                       "No capacity for additional loan"))
              ELSE a
    IN  IF calculated_emi > total_emi_obligation
        THEN AddOffer(
                 AddReason(a1, Reason("Loan Affordability", "Medium",
                     [text |-> "Requested loan EMI ({}) exceeds affordable limit ({})",
                      args |-> <<FormatRupees(calculated_emi),
                                 FormatRupees(Max(0, total_emi_obligation))>>],
                     "High debt burden ratio")),
                 [type |-> "Reduced Loan Amount",
                  amount |-> SuggestedPrincipal(Max(0, total_emi_obligation)),
                  tenure |-> "60 months",
                  emi |-> total_emi_obligation,
                  interest_rate |-> "8.5%",
                  reason |-> "Better aligned with your income and existing obligations"])
        ELSE a1

check_loan_affordability(d, a) ==
    LET monthly_salary == Paise(Get(d, "monthly_salary", 0))
        existing_emi   == Paise(Get(d, "existing_emi", 0))
        loan_amount    == Paise(Get(d, "loan_amount", 0))
        affordable_emi == monthly_salary \div 2
        total_emi_obligation == affordable_emi - existing_emi
        calculated_emi == CalculatedEmi(loan_amount)
    IN  IF total_emi_obligation <= 0
        THEN AddReason(a, Reason("Debt Burden", "High",
                 Text("Existing EMI obligations exceed affordable limits"),
                 "No capacity for additional loan"))
        ELSE IF calculated_emi > total_emi_obligation
        THEN AddOffer(
                 AddReason(a, Reason("Loan Affordability", "Medium",
                     [text |-> "Requested loan EMI ({}) exceeds affordable limit ({})",
                      args |-> <<FormatRupees(calculated_emi),
                                 FormatRupees(total_emi_obligation)>>],
                     "High debt burden ratio")),
                 [type |-> "Reduced Loan Amount",
                  amount |-> SuggestedPrincipal(total_emi_obligation),
                  tenure |-> "60 months",
                  emi |-> total_emi_obligation,
                  interest_rate |-> "8.5%",
                  reason |-> "Better aligned with your income and existing obligations"])
        ELSE a

\* loan_amount / property_valuation in thousandths, ties to even: f"{ltv:.1%}"
LtvPermille(loan_amount, property_valuation) ==
    LET q == MulFrac(loan_amount, 1000, property_valuation)
        r == ((loan_amount % property_valuation) * 1000) % property_valuation
    IN  IF 2 * r > property_valuation \/ (2 * r = property_valuation /\ q % 2 = 1)
        THEN q + 1 ELSE q

check_loan_to_value_ratio(d, a) ==
    LET loan_amount        == Get(d, "loan_amount", 0)
        property_valuation == Get(d, "property_valuation", 0)
    IN  IF property_valuation > 0
           /\ 100 * loan_amount > loan_to_value_max * property_valuation
        THEN AddOffer(
                 AddReason(a, Reason("Loan-to-Value Ratio", "Medium",
                     [text |-> "LTV ratio of {} exceeds maximum allowed {}",
                      args |-> <<LtvPermille(loan_amount, property_valuation),
                                 10 * loan_to_value_max>>],
                     "Higher collateral risk")),
                 [type |-> "LTV Adjusted Loan",
                  amount |-> MulFrac(Paise(property_valuation), loan_to_value_max, 100),
                  max_ltv |-> 10 * loan_to_value_max,
                  reason |-> "Maintains healthy loan-to-value ratio"])
        ELSE a

check_employment_stability(d, a) ==
    LET monthly_salary == Get(d, "monthly_salary", 0)
    IN  IF monthly_salary < 30000
        THEN AddOffer(
                 AddReason(a, Reason("Income Level", "Medium",
                     Text("Monthly salary below minimum threshold for this loan type"),
                     "Limited repayment capacity")),
                 [type |-> "Smaller Personal Loan",
                  amount |-> Paise(Min(500000, monthly_salary * 10)),
                  tenure |-> "36 months",
                  purpose |-> "Income-based smaller loan",
                  features |-> <<"Lower amount", "Shorter tenure">>])
        ELSE a

----------------------------------------------------------------------------
(* _generate_explanation: the text, line by line *)

ReasonLines(reasons) ==
    [i \in 1..Len(reasons) |->
        [kind |-> "reason", description |-> reasons[i].description,
         severity |-> reasons[i].severity]]

RecommendationLines(recs) ==
    [i \in 1..Len(recs) |->
        [kind |-> "recommendation", description |-> recs[i].description,
         priority |-> recs[i].priority]]

OfferLines(offers) ==
    [i \in 1..Len(offers) |->
        [kind |-> "offer", type |-> offers[i].type,
         amount |-> FormatRupees(offers[i].amount)]]

generate_explanation(a) ==
    IF a.rejection_reasons = <<>>
    THEN [a EXCEPT !.generated_explanation = <<[kind |-> "meets all criteria"]>>]
    ELSE [a EXCEPT !.generated_explanation =
             <<[kind |-> "header"]>>
             \o ReasonLines(a.rejection_reasons)
             \o (IF a.recommendations # <<>>
                 THEN <<[kind |-> "recommendations header"]>>
                      \o RecommendationLines(a.recommendations)
                 ELSE <<>>)
             \o (IF a.alternative_offers # <<>>
                 THEN <<[kind |-> "offers header"]>>
                      \o OfferLines(a.alternative_offers)
                 ELSE <<>>)]

----------------------------------------------------------------------------
(* _generate_alternative_offers: the profile-driven offers *)

\* None < 700 raises TypeError
generate_alternative_offers_raises(d) == Get(d, "cibil_score", Some(0)) = None

generate_alternative_offers(d, a) ==
    LET monthly_salary == Get(d, "monthly_salary", 0)
        cibil_score    == Get(d, "cibil_score", Some(0))[1]
        a1 == IF cibil_score < 700 /\ monthly_salary > 40000
              THEN AddOffer(a,
                       [type |-> "Credit Builder Loan",
                        amount |-> Paise(50000),
                        tenure |-> "12 months",
                        interest_rate |-> "12%",
                        purpose |-> "Build credit history",
                        features |-> <<"Low amount", "Short tenure", "Credit reporting">>])
              ELSE a
    IN  IF cibil_score > 750 /\ monthly_salary > 80000
        THEN AddOffer(a1,
                 [type |-> "Preferred Customer Loan",
                  amount |-> Paise(Min(2000000, monthly_salary * 24)),
                  tenure |-> "84 months",
                  interest_rate |-> "7.5%",
                  features |-> <<"Lower interest", "Longer tenure", "Flexible repayment">>])
        ELSE a1

----------------------------------------------------------------------------
(* _calculate_financial_health_score *)

\* None >= 800 raises TypeError
calculate_financial_health_score_raises(d) == Get(d, "cibil_score", Some(0)) = None

\* lines 220-229: CIBIL score contribution
CibilPoints(d) ==
    LET cibil_score == Get(d, "cibil_score", Some(0))[1]
    IN  IF cibil_score >= 800 THEN 30
        ELSE IF cibil_score >= 750 THEN 20
        ELSE IF cibil_score >= 700 THEN 10
        ELSE IF cibil_score < 600 THEN -20
        ELSE 0

\* lines 231-240: income stability
IncomePoints(d) ==
    LET monthly_salary == Get(d, "monthly_salary", 0)
    IN  IF monthly_salary >= 100000 THEN 20
        ELSE IF monthly_salary >= 50000 THEN 15
        ELSE IF monthly_salary >= 30000 THEN 10
        ELSE -10

\* lines 242-251: dti_ratio = existing_emi / monthly_salary against 0.2, 0.4, 0.6
DtiPoints(d) ==
    LET monthly_salary == Get(d, "monthly_salary", 0)
        existing_emi   == Get(d, "existing_emi", 0)
    IN  IF monthly_salary > 0
        THEN IF 10 * existing_emi < 2 * monthly_salary THEN 15
             ELSE IF 10 * existing_emi < 4 * monthly_salary THEN 10
             ELSE IF 10 * existing_emi > 6 * monthly_salary THEN -15
             ELSE 0
        ELSE 0

\* lines 253-263: ltv_ratio = loan_amount / property_valuation against 0.6, 0.8, 0.9
LtvPoints(d) ==
    LET loan_amount        == Get(d, "loan_amount", 0)
        property_valuation == Get(d, "property_valuation", 0)
    IN  IF property_valuation > 0
        THEN IF 10 * loan_amount < 6 * property_valuation THEN 15
             ELSE IF 10 * loan_amount < 8 * property_valuation THEN 10
             ELSE IF 10 * loan_amount > 9 * property_valuation THEN -10
             ELSE 0
        ELSE 0

\* lines 265-267: dict.get without a default gives None, which is falsy
PropertyPoints(d) == IF Get(d, "is_non_agricultural", FALSE) THEN 10 ELSE 0

ResidencePointsRentedOnly(d) == IF Get(d, "is_rented", FALSE) THEN 10 ELSE 0

\* lines 269-271
ResidencePoints(d) == IF ~ Get(d, "is_rented", FALSE) THEN 10 ELSE 0

\* lines 218-271: the sum before the clamp
RawScore(d) ==
    50 + CibilPoints(d) + IncomePoints(d) + DtiPoints(d) + LtvPoints(d)
       + PropertyPoints(d) + ResidencePoints(d)

ClampNoCeiling(score) == Max(0, score)

\* line 273: max(0, min(100, int(score)))
Clamp(score) == Max(0, Min(100, score))

calculate_financial_health_score(d, a) ==
    [a EXCEPT !.financial_health_score = Clamp(RawScore(d))]

----------------------------------------------------------------------------
(* _determine_final_status *)

HasSeverity(reasons, s) == \E i \in 1..Len(reasons) : reasons[i].severity = s

determine_final_status_high_first(a) ==
    LET rejection_reasons == a.rejection_reasons
    IN  IF HasSeverity(rejection_reasons, "High")
        THEN [a EXCEPT !.status = "REJECTED", !.risk_level = "HIGH"]
        ELSE IF HasSeverity(rejection_reasons, "Critical")
        THEN [a EXCEPT !.status = "REJECTED", !.risk_level = "VERY_HIGH"]
        ELSE IF rejection_reasons # <<>>
        THEN [a EXCEPT !.status = "UNDER_REVIEW", !.risk_level = "MEDIUM"]
        ELSE [a EXCEPT !.status = "APPROVED", !.risk_level = "LOW"]

determine_final_status(a) ==
    LET rejection_reasons == a.rejection_reasons
    IN  IF HasSeverity(rejection_reasons, "Critical")
        THEN [a EXCEPT !.status = "REJECTED", !.risk_level = "VERY_HIGH"]
        ELSE IF HasSeverity(rejection_reasons, "High")
        THEN [a EXCEPT !.status = "REJECTED", !.risk_level = "HIGH"]
        ELSE IF rejection_reasons # <<>>
        THEN [a EXCEPT !.status = "UNDER_REVIEW", !.risk_level = "MEDIUM"]
        ELSE [a EXCEPT !.status = "APPROVED", !.risk_level = "LOW"]

----------------------------------------------------------------------------
(* The applications the model evaluates *)

CibilScores == {5, 300, 650, 720, 750, 850}

Salaries == {0, 25000, 45000, 50000, 90000, 200000}

ExistingEmis == {0, 10000, 40000}

LoanAmounts == {0, 200000, 500000, 700000, 900000, 5000000}

PropertyValuations == {0, 1000000}

\* every key but cibil_score given
Profiles(salaries, emis, loans, valuations) ==
    [ monthly_salary      : salaries,
      existing_emi        : emis,
      loan_amount         : loans,
      property_valuation  : valuations,
      is_non_agricultural : BOOLEAN,
      is_rented           : BOOLEAN ]

\* cibil_score left out, given as None, or given as a number
WithCibil(profiles, scores) ==
    profiles
    \cup { p @@ ("cibil_score" :> c) : p \in profiles,
                                       c \in {None} \cup {Some(v) : v \in scores} }

\* dicts that give only some keys
SparseApplications ==
    { [cibil_score |-> Some(300), monthly_salary |-> 0],
      [cibil_score |-> None, monthly_salary |-> 50000, existing_emi |-> 40000],
      [monthly_salary |-> 50000, existing_emi |-> 40000],
      [loan_amount |-> 900000, property_valuation |-> 1000000] }

Applications ==
    WithCibil(Profiles(Salaries, ExistingEmis, LoanAmounts, PropertyValuations), CibilScores)
    \cup SparseApplications

\* the applications of the repeated-call specification
RepeatApplications ==
    WithCibil(Profiles({25000, 90000}, {0}, {900000}, {1000000}), {650, 850})

\* severities a rejection reason may carry (spec 3, RejectionReason)
Severities == {"Low", "Medium", "High", "Critical"}

MaxReasons == 3

MaxCalls == 2

RECURSIVE SeqsUpTo(_, _)
SeqsUpTo(S, n) ==
    IF n = 0 THEN {<<>>}
    ELSE LET shorter == SeqsUpTo(S, n - 1)
         IN  shorter \cup {Append(q, x) : q \in shorter, x \in S}

\* accumulators as _determine_final_status may be handed them
ResolverInputs ==
    { [NewAnalysis EXCEPT
          !.rejection_reasons =
              [i \in 1..Len(sev) |-> Reason("Finding", sev[i], Text("finding"), "impact")],
          !.financial_health_score = score]
      : sev \in SeqsUpTo(Severities, MaxReasons), score \in {0, 50, 100} }

----------------------------------------------------------------------------
(* ApplicationProcessor: the methods process_application calls *)

\* the truth value of a number that may be None
Truthy(optional) == optional # None /\ optional[1] # 0

update_application_risk_keeps_score(application, r) ==
    IF Get(r, "success", FALSE)
    THEN [application EXCEPT
             !.credit_risk_score = GetOptional(r, "risk_score"),
             !.banking_behavior = IF @ = None \/ @ = Some("")
                                  THEN Some(Get(r, "risk_category", "FAIR")) ELSE @,
             !.fraud_risk = IF @ = None \/ @ = Some("") THEN Some("LOW") ELSE @]
    ELSE [application EXCEPT !.status = "MANUAL_REVIEW"]

\* _update_application_risk, lines 49-66
update_application_risk(application, r) ==
    IF Get(r, "success", FALSE)
    THEN [application EXCEPT
             !.credit_risk_score = GetOptional(r, "risk_score"),
             !.banking_behavior = IF @ = None \/ @ = Some("")
                                  THEN Some(Get(r, "risk_category", "FAIR")) ELSE @,
             !.fraud_risk = IF @ = None \/ @ = Some("") THEN Some("LOW") ELSE @]
    ELSE [application EXCEPT !.status = "MANUAL_REVIEW", !.credit_risk_score = None]

\* line 125: None * 60 and None > n raise TypeError
assess_rejection_reasons_raises(application) ==
    application.loan_amount = None \/ application.monthly_salary = None

\* _assess_rejection_reasons, lines 104-133
assess_rejection_reasons(application, r) ==
    LET credit ==
            IF ~ Get(r, "success", FALSE)
            THEN <<Reason("Credit Assessment", "High",
                       Text("Unable to complete credit risk assessment"),
                       "Cannot evaluate creditworthiness")>>
            ELSE IF Get(r, "risk_level", "") = "HIGH"
            THEN <<Reason("Credit Risk", "High",
                       [text |-> "High credit risk detected (Score: {})",
                        args |-> <<GetOptional(r, "risk_score")>>],
                       "Increased default probability")>>
            ELSE <<>>
        affordability ==
            IF application.loan_amount[1] > application.monthly_salary[1] * 60
            THEN <<Reason("Loan Affordability", "Medium",
                       Text("Loan amount exceeds affordable limit"),
                       "High debt-to-income ratio")>>
            ELSE <<>>
    IN  credit \o affordability

\* _generate_recommendations, lines 135-155
generate_recommendations(application, r) ==
    (IF ~ Get(r, "success", FALSE)
     THEN <<Recommendation("Manual Credit Review", "High",
                "System credit assessment failed - requires manual review", "Immediate")>>
     ELSE <<>>)
    \o (IF Truthy(application.cibil_score) /\ application.cibil_score[1] < 750
        THEN <<Recommendation("Improve Credit Score", "Medium",
                   "Increase credit score above 750 for better rates", "3-6 months")>>
        ELSE <<>>)

\* ApplicationProcessor._generate_alternative_offers, lines 157-172
processor_generate_alternative_offers(application) ==
    IF application.loan_amount[1] > application.monthly_salary[1] * 48
    THEN <<[type |-> "Reduced Loan Amount",
            amount |-> application.monthly_salary[1] * 36,
            tenure |-> "60 months",
            reason |-> "Better aligned with income",
            improvement |-> "Lower EMI burden"]>>
    ELSE <<>>

\* ApplicationProcessor._generate_explanation, lines 174-192
processor_generate_explanation(r, rejection_reasons) ==
    IF rejection_reasons = <<>>
    THEN <<[kind |-> "meets all criteria"]>>
    ELSE <<[kind |-> "header"]>>
         \o (IF Get(r, "success", FALSE)
             THEN <<[kind |-> "credit risk",
                     category |-> GetOptional(r, "risk_category"),
                     score |-> GetOptional(r, "risk_score")]>>
             ELSE <<[kind |-> "credit risk failed"]>>)
         \o <<[kind |-> "areas header"]>>
         \o [i \in 1..Len(rejection_reasons) |->
                [kind |-> "reason", description |-> rejection_reasons[i].description]]

\* AIAnalysisReport(application_id=...): a report with nothing set
NewReport(id) ==
    [ application_id         |-> id,
      rejection_reasons      |-> None,
      recommendations        |-> None,
      alternative_offers     |-> None,
      financial_health_score |-> None,
      generated_explanation  |-> None ]

\* _generate_ai_analysis, lines 77-96: the report once every setter has run
FilledReport(report, application, r) ==
    LET rejection_reasons == assess_rejection_reasons(application, r)
    IN  [report EXCEPT
            !.rejection_reasons = Some(rejection_reasons),
            !.recommendations = Some(generate_recommendations(application, r)),
            !.alternative_offers =
                IF rejection_reasons # <<>>
                THEN Some(processor_generate_alternative_offers(application))
                ELSE @,
            !.financial_health_score = Some(Get(r, "risk_score", 50)),
            !.generated_explanation =
                Some(processor_generate_explanation(r, rejection_reasons))]

make_decision_strict(r) ==
    IF ~ Get(r, "success", FALSE) THEN "MANUAL_REVIEW"
    ELSE LET risk_level == Get(r, "risk_level", "")
             risk_score == Get(r, "risk_score", 0)
         IN  IF risk_level = "LOW" /\ risk_score > 70 THEN "APPROVED"
             ELSE IF risk_level = "MEDIUM" /\ risk_score > 50 THEN "MANUAL_REVIEW"
             ELSE "REJECTED"

\* _make_decision, lines 194-213: the decision, which is also the new status
make_decision(r) ==
    IF ~ Get(r, "success", FALSE) THEN "MANUAL_REVIEW"
    ELSE LET risk_level == Get(r, "risk_level", "")
             risk_score == Get(r, "risk_score", 0)
         IN  IF risk_level = "LOW" /\ risk_score >= 70 THEN "APPROVED"
             ELSE IF risk_level = "MEDIUM" /\ risk_score >= 50 THEN "MANUAL_REVIEW"
             ELSE "REJECTED"

----------------------------------------------------------------------------
(* The collaborators of process_application *)

MaxRuns == 2

\* the application the store holds; every other id is unknown to it
StoredApplications ==
    [ id                : {"A1"},
      status            : {"PENDING"},
      credit_risk_score : {None},
      banking_behavior  : {None, Some("EXCELLENT")},
      fraud_risk        : {None, Some("MEDIUM")},
      loan_amount       : {Some(500000), Some(1000000)},
      monthly_salary    : {None, Some(10000)},
      cibil_score       : {None, Some(700)} ]

ApplicationIds == {"A1", "A2"}

\* CreditRiskResult (spec 3): what calculate_credit_risk may return
CreditRiskResults ==
    [ success       : {TRUE},
      risk_score    : {45, 50, 70},
      risk_level    : {"LOW", "MEDIUM", "HIGH"},
      risk_category : {"GOOD"} ]
    \cup {[success |-> FALSE, error |-> "assessment failed"]}

EmptySession == [application |-> None, report |-> None]

PipelineOff ==
    /\ db = [application |-> CHOOSE a \in StoredApplications : TRUE, report |-> None]
    /\ session = EmptySession
    /\ application_id = "A1"
    /\ credit_risk_result = None
    /\ ai_report = None
    /\ decision = None
    /\ result = None
    /\ ppc = "off"
    /\ error = ""
    /\ exceptions = {}
    /\ service_outcome = "not called"
    /\ db_at_call = db
    /\ runs = 0

AnalyzerOff ==
    /\ application_data = [monthly_salary |-> 0]
    /\ analysis = NewAnalysis
    /\ pc = "off"
    /\ raised = ""
    /\ input_at_call = None
    /\ history = <<>>

----------------------------------------------------------------------------
(* analyze_application, one action per method it calls *)

Outcome ==
    IF raised # "" THEN [raised |-> raised, result |-> None]
    ELSE [raised |-> "", result |-> Some(analysis)]

Init ==
    /\ application_data \in Applications
    /\ analysis = NewAnalysis
    /\ pc = "analyze_application"
    /\ raised = ""
    /\ input_at_call = None
    /\ history = <<>>
    /\ PipelineOff

BeginAnalysisStale ==
    /\ pc = "analyze_application"
    /\ input_at_call' = Some(application_data)
    /\ raised' = ""
    /\ pc' = "_check_credit_profile"
    /\ UNCHANGED <<application_data, analysis, history>>
    /\ UNCHANGED pvars

\* lines 13-23
BeginAnalysis ==
    /\ pc = "analyze_application"
    /\ analysis' = NewAnalysis
    /\ input_at_call' = Some(application_data)
    /\ raised' = ""
    /\ pc' = "_check_credit_profile"
    /\ UNCHANGED <<application_data, history>>
    /\ UNCHANGED pvars

\* line 26
CheckCreditProfile ==
    /\ pc = "_check_credit_profile"
    /\ analysis' = check_credit_profile(application_data, analysis)
    /\ pc' = "_check_loan_affordability"
    /\ UNCHANGED <<application_data, raised, input_at_call, history>>
    /\ UNCHANGED pvars

\* line 27
CheckLoanAffordability ==
    /\ pc = "_check_loan_affordability"
    /\ analysis' = check_loan_affordability(application_data, analysis)
    /\ pc' = "_check_loan_to_value_ratio"
    /\ UNCHANGED <<application_data, raised, input_at_call, history>>
    /\ UNCHANGED pvars

\* line 28
CheckLoanToValueRatio ==
    /\ pc = "_check_loan_to_value_ratio"
    /\ analysis' = check_loan_to_value_ratio(application_data, analysis)
    /\ pc' = "_check_employment_stability"
    /\ UNCHANGED <<application_data, raised, input_at_call, history>>
    /\ UNCHANGED pvars

\* line 29
CheckEmploymentStability ==
    /\ pc = "_check_employment_stability"
    /\ analysis' = check_employment_stability(application_data, analysis)
    /\ pc' = "_generate_explanation"
    /\ UNCHANGED <<application_data, raised, input_at_call, history>>
    /\ UNCHANGED pvars

\* line 32
GenerateExplanation ==
    /\ pc = "_generate_explanation"
    /\ analysis' = generate_explanation(analysis)
    /\ pc' = "_generate_alternative_offers"
    /\ UNCHANGED <<application_data, raised, input_at_call, history>>
    /\ UNCHANGED pvars

\* line 33
GenerateAlternativeOffers ==
    /\ pc = "_generate_alternative_offers"
    /\ IF generate_alternative_offers_raises(application_data)
       THEN /\ raised' = "TypeError"
            /\ pc' = "raised"
            /\ UNCHANGED analysis
       ELSE /\ analysis' = generate_alternative_offers(application_data, analysis)
            /\ pc' = "_calculate_financial_health_score"
            /\ UNCHANGED raised
    /\ UNCHANGED <<application_data, input_at_call, history>>
    /\ UNCHANGED pvars

\* line 34
CalculateFinancialHealthScore ==
    /\ pc = "_calculate_financial_health_score"
    /\ IF calculate_financial_health_score_raises(application_data)
       THEN /\ raised' = "TypeError"
            /\ pc' = "raised"
            /\ UNCHANGED analysis
       ELSE /\ analysis' = calculate_financial_health_score(application_data, analysis)
            /\ pc' = "_determine_final_status"
            /\ UNCHANGED raised
    /\ UNCHANGED <<application_data, input_at_call, history>>
    /\ UNCHANGED pvars

\* lines 35-37
DetermineFinalStatus ==
    /\ pc = "_determine_final_status"
    /\ analysis' = determine_final_status(analysis)
    /\ pc' = "returned"
    /\ UNCHANGED <<application_data, raised, input_at_call, history>>
    /\ UNCHANGED pvars

AnalyzeStep ==
    \/ BeginAnalysis
    \/ CheckCreditProfile
    \/ CheckLoanAffordability
    \/ CheckLoanToValueRatio
    \/ CheckEmploymentStability
    \/ GenerateExplanation
    \/ GenerateAlternativeOffers
    \/ CalculateFinancialHealthScore
    \/ DetermineFinalStatus

Next == AnalyzeStep

Spec == Init /\ [][Next]_vars

(* _determine_final_status applied to any list of reasons, beside the calls above *)
InitResolver ==
    /\ application_data \in SparseApplications
    /\ analysis \in ResolverInputs
    /\ pc = "_determine_final_status"
    /\ raised = ""
    /\ input_at_call = Some(application_data)
    /\ history = <<>>
    /\ PipelineOff

SpecResolver == (Init \/ InitResolver) /\ [][Next]_vars

(* one analyzer called again and again *)
InitRepeat ==
    /\ application_data \in RepeatApplications
    /\ analysis = NewAnalysis
    /\ pc = "analyze_application"
    /\ raised = ""
    /\ input_at_call = None
    /\ history = <<>>
    /\ PipelineOff

\* the caller takes the outcome and calls again, with the same dict or another
CallAgain ==
    /\ pc \in {"returned", "raised"}
    /\ Len(history) + 1 < MaxCalls
    /\ history' = Append(history, [input |-> input_at_call[1], outcome |-> Outcome])
    /\ application_data' \in RepeatApplications
    /\ pc' = "analyze_application"
    /\ UNCHANGED <<analysis, raised, input_at_call>>
    /\ UNCHANGED pvars

NextRepeat == AnalyzeStep \/ CallAgain

SpecRepeat == InitRepeat /\ [][NextRepeat]_vars

----------------------------------------------------------------------------
(* process_application, statement by statement *)

InitPipeline ==
    /\ AnalyzerOff
    /\ db \in [application : StoredApplications, report : {None}]
    /\ session = EmptySession
    /\ application_id = "A1"
    /\ credit_risk_result = None
    /\ ai_report = None
    /\ decision = None
    /\ result = None
    /\ ppc = "idle"
    /\ error = ""
    /\ exceptions = {}
    /\ service_outcome = "not called"
    /\ db_at_call = db
    /\ runs = 0

\* a caller invokes process_application(id)
Call ==
    /\ ppc \in {"idle", "done"}
    /\ runs < MaxRuns
    /\ application_id' \in ApplicationIds
    /\ runs' = runs + 1
    /\ db_at_call' = db
    /\ credit_risk_result' = None
    /\ ai_report' = None
    /\ decision' = None
    /\ result' = None
    /\ error' = ""
    /\ exceptions' = {}
    /\ service_outcome' = "not called"
    /\ ppc' = "fetch"
    /\ UNCHANGED <<db, session>>
    /\ UNCHANGED avars

FetchAfterService ==
    /\ ppc = "fetch"
    /\ service_outcome' = "returned"
    /\ IF application_id # db.application.id
       THEN /\ result' = Some([success |-> FALSE, error |-> "Application not found"])
            /\ ppc' = "done"
            /\ UNCHANGED session
       ELSE /\ session' = [session EXCEPT !.application = Some(db.application)]
            /\ ppc' = "calculate_credit_risk"
            /\ UNCHANGED result
    /\ UNCHANGED <<db, application_id, credit_risk_result, ai_report, decision, error,
                   exceptions, db_at_call, runs>>
    /\ UNCHANGED avars

\* lines 17-19
Fetch ==
    /\ ppc = "fetch"
    /\ IF application_id # db.application.id
       THEN /\ result' = Some([success |-> FALSE, error |-> "Application not found"])
            /\ ppc' = "done"
            /\ UNCHANGED session
       ELSE /\ session' = [session EXCEPT !.application = Some(db.application)]
            /\ ppc' = "calculate_credit_risk"
            /\ UNCHANGED result
    /\ UNCHANGED <<db, application_id, credit_risk_result, ai_report, decision, error,
                   exceptions, service_outcome, db_at_call, runs>>
    /\ UNCHANGED avars

\* line 22: the service returns a CreditRiskResult
CalculateCreditRisk ==
    /\ ppc = "calculate_credit_risk"
    /\ \E r \in CreditRiskResults :
          /\ credit_risk_result' = Some(r)
          /\ service_outcome' = IF r.success THEN "returned" ELSE "failed"
    /\ ppc' = "_update_application_risk"
    /\ UNCHANGED <<db, session, application_id, ai_report, decision, result, error,
                   exceptions, db_at_call, runs>>
    /\ UNCHANGED avars

\* line 22: the service throws
CalculateCreditRiskThrows ==
    /\ ppc = "calculate_credit_risk"
    /\ service_outcome' = "threw"
    /\ error' = "credit risk service error"
    /\ exceptions' = exceptions \cup {"credit risk service error"}
    /\ ppc' = "except"
    /\ UNCHANGED <<db, session, application_id, credit_risk_result, ai_report, decision,
                   result, db_at_call, runs>>
    /\ UNCHANGED avars

\* line 25
UpdateApplicationRisk ==
    /\ ppc = "_update_application_risk"
    /\ session' = [session EXCEPT !.application =
                       Some(update_application_risk(@[1], credit_risk_result[1]))]
    /\ ppc' = "_generate_ai_analysis"
    /\ UNCHANGED <<db, application_id, credit_risk_result, ai_report, decision, result,
                   error, exceptions, service_outcome, db_at_call, runs>>
    /\ UNCHANGED avars

\* line 28: _generate_ai_analysis, lines 68-102
GenerateAiAnalysis ==
    /\ ppc = "_generate_ai_analysis"
    /\ LET application == session.application[1]
           \* lines 72-75: the stored report, or a new one added to the session
           report == IF db.report # None THEN db.report[1] ELSE NewReport(application.id)
       IN  IF assess_rejection_reasons_raises(application)
           THEN \* lines 100-102: logged, and None returned
                /\ session' = [session EXCEPT !.report = Some(report)]
                /\ ai_report' = None
                /\ exceptions' = exceptions \cup {"TypeError"}
           ELSE /\ session' = [session EXCEPT !.report =
                                   Some(FilledReport(report, application,
                                                     credit_risk_result[1]))]
                /\ ai_report' = Some(application.id)
                /\ UNCHANGED exceptions
    /\ ppc' = "_make_decision"
    /\ UNCHANGED <<db, application_id, credit_risk_result, decision, result, error,
                   service_outcome, db_at_call, runs>>
    /\ UNCHANGED avars

\* line 31
MakeDecision ==
    /\ ppc = "_make_decision"
    /\ decision' = Some(make_decision(credit_risk_result[1]))
    /\ session' = [session EXCEPT !.application =
                       Some([@[1] EXCEPT !.status = make_decision(credit_risk_result[1])])]
    /\ ppc' = "commit"
    /\ UNCHANGED <<db, application_id, credit_risk_result, ai_report, result, error,
                   exceptions, service_outcome, db_at_call, runs>>
    /\ UNCHANGED avars

\* lines 34-42: the commit writes every pending change, and the result is returned
Commit ==
    /\ ppc = "commit"
    /\ db' = [application |-> session.application[1], report |-> session.report]
    /\ session' = EmptySession
    /\ result' = Some([success |-> TRUE,
                        application_id |-> application_id,
                        decision |-> decision[1],
                        credit_risk |-> credit_risk_result[1],
                        ai_report_id |-> ai_report])
    /\ ppc' = "done"
    /\ UNCHANGED <<application_id, credit_risk_result, ai_report, decision, error,
                   exceptions, service_outcome, db_at_call, runs>>
    /\ UNCHANGED avars

\* line 34: the store refuses the commit
CommitFails ==
    /\ ppc = "commit"
    /\ error' = "commit failed"
    /\ exceptions' = exceptions \cup {"commit failed"}
    /\ ppc' = "except"
    /\ UNCHANGED <<db, session, application_id, credit_risk_result, ai_report, decision,
                   result, service_outcome, db_at_call, runs>>
    /\ UNCHANGED avars

\* lines 44-47
Except ==
    /\ ppc = "except"
    /\ session' = EmptySession
    /\ result' = Some([success |-> FALSE, error |-> error])
    /\ ppc' = "done"
    /\ UNCHANGED <<db, application_id, credit_risk_result, ai_report, decision, error,
                   exceptions, service_outcome, db_at_call, runs>>
    /\ UNCHANGED avars

NextPipeline ==
    \/ Call
    \/ Fetch
    \/ CalculateCreditRisk
    \/ CalculateCreditRiskThrows
    \/ UpdateApplicationRisk
    \/ GenerateAiAnalysis
    \/ MakeDecision
    \/ Commit
    \/ CommitFails
    \/ Except

SpecPipeline == InitPipeline /\ [][NextPipeline]_vars

----------------------------------------------------------------------------
(* Properties of analyze_application *)

Returned == pc = "returned"

Field(k, default) == Get(application_data, k, default)

HasReason(factor, severity) ==
    \E i \in 1..Len(analysis.rejection_reasons) :
        /\ analysis.rejection_reasons[i].factor = factor
        /\ analysis.rejection_reasons[i].severity = severity

HasOffer(type) ==
    \E i \in 1..Len(analysis.alternative_offers) : analysis.alternative_offers[i].type = type

ListedInExplanation(offer) ==
    \E j \in 1..Len(analysis.generated_explanation) :
        /\ analysis.generated_explanation[j].kind = "offer"
        /\ analysis.generated_explanation[j].type = offer.type
        /\ analysis.generated_explanation[j].amount = FormatRupees(offer.amount)

(* C3: in a returned result that has rejection reasons, every offer of
   alternative_offers, the profile-driven ones included, is listed in
   generated_explanation. *)
C3_ExplanationListsEveryOffer ==
    (Returned /\ analysis.rejection_reasons # <<>>)
        => \A i \in 1..Len(analysis.alternative_offers) :
               ListedInExplanation(analysis.alternative_offers[i])

(* C4: with cibil_score absent or None analyze_application never raises, and
   for monthly_salary=50000, existing_emi=40000 it returns a High "Credit
   History" reason, a High "Debt Burden" reason, REJECTED and HIGH. *)
C4_MissingCibilNeverRaises ==
    Field("cibil_score", None) = None
        => /\ pc # "raised"
           /\ (Returned /\ Field("monthly_salary", 0) = 50000
                        /\ Field("existing_emi", 0) = 40000)
                  => /\ HasReason("Credit History", "High")
                     /\ HasReason("Debt Burden", "High")
                     /\ analysis.status = "REJECTED"
                     /\ analysis.risk_level = "HIGH"

(* C5: the financial_health_score of every returned result is an integer
   between 0 and 100. *)
C5_ScoreWithinRange == Returned => analysis.financial_health_score \in 0..100

C5_Witness ==
    /\ Returned
    /\ RawScore(application_data) < 0
    /\ analysis.financial_health_score = 0

IsFirstExample == Field("cibil_score", None) = Some(300) /\ Field("monthly_salary", 0) = 0

IsSecondExample ==
    /\ Field("cibil_score", None) = Some(850)
    /\ Field("monthly_salary", 0) = 200000
    /\ Field("existing_emi", 0) = 0
    /\ Field("property_valuation", 0) > 0
    /\ 2 * Field("loan_amount", 0) = Field("property_valuation", 0)
    /\ Field("is_non_agricultural", FALSE)
    /\ ~ Field("is_rented", FALSE)

(* C6 as stated: cibil_score=300 with monthly_salary=0 scores 0, and
   cibil_score=850, monthly_salary=200000, existing_emi=0, LTV=0.5,
   non-agricultural, not rented scores 100. *)
C6_Original_ClampExamples ==
    Returned => /\ IsFirstExample => analysis.financial_health_score = 0
                /\ IsSecondExample => analysis.financial_health_score = 100

(* C6 as amended: cibil_score=300 with monthly_salary=0 scores 30 when no
   other field is given and between 10 and 55 whatever the other fields are;
   the second example scores 100. *)
C6_ClampExamples ==
    Returned =>
        /\ IsFirstExample
              => /\ analysis.financial_health_score \in 10..55
                 /\ DOMAIN application_data = {"cibil_score", "monthly_salary"}
                       => analysis.financial_health_score = 30
        /\ IsSecondExample => analysis.financial_health_score = 100

C6_Witness ==
    /\ Returned
    /\ application_data = [cibil_score |-> Some(300), monthly_salary |-> 0]
    /\ analysis.financial_health_score = 30

(* C7: the status is a strict cascade over the severities of the collected
   reasons, whatever the score: any Critical gives REJECTED/VERY_HIGH; else
   any High gives REJECTED/HIGH; else any reason gives UNDER_REVIEW/MEDIUM;
   else APPROVED/LOW; so status is APPROVED exactly when there is no reason. *)
C7_StatusCascade ==
    Returned =>
        LET reasons  == analysis.rejection_reasons
            critical == HasSeverity(reasons, "Critical")
            high     == HasSeverity(reasons, "High")
            outcome  == <<analysis.status, analysis.risk_level>>
        IN  /\ critical => outcome = <<"REJECTED", "VERY_HIGH">>
            /\ (~ critical /\ high) => outcome = <<"REJECTED", "HIGH">>
            /\ (~ critical /\ ~ high /\ reasons # <<>>)
                  => outcome = <<"UNDER_REVIEW", "MEDIUM">>
            /\ reasons = <<>> => outcome = <<"APPROVED", "LOW">>
            /\ analysis.status = "APPROVED" <=> reasons = <<>>

C7_Witness ==
    /\ Returned
    /\ HasSeverity(analysis.rejection_reasons, "Critical")
    /\ HasSeverity(analysis.rejection_reasons, "High")
    /\ HasSeverity(analysis.rejection_reasons, "Medium")
    /\ analysis.financial_health_score = 100
    /\ analysis.risk_level = "VERY_HIGH"

(* C9: a call leaves the caller's dict as it was, and its outcome equals the
   outcome of every earlier call on this analyzer that was given the same
   dict, whatever calls came in between. *)
C9_SameInputSameOutcome ==
    pc \in {"returned", "raised"} =>
        /\ application_data = input_at_call[1]
        /\ \A i \in 1..Len(history) :
               history[i].input = application_data => history[i].outcome = Outcome

C9_Witness ==
    /\ Returned
    /\ Len(history) >= 1
    /\ history[1].input = application_data
    /\ analysis.rejection_reasons # <<>>
    /\ analysis.alternative_offers # <<>>

----------------------------------------------------------------------------
(* Properties of process_application *)

Done == ppc = "done"

Succeeded == Done /\ result # None /\ result[1].success

Failed == Done /\ result # None /\ ~ result[1].success

(* C1: when an exception is raised anywhere in process_application, report
   building included, the call returns {success: false, error} and nothing
   of it is committed: the stored application and report are as they were. *)
C1_AnyExceptionRollsBack == (Done /\ exceptions # {}) => (Failed /\ db = db_at_call)

(* C2 as stated: when the credit-risk service fails, by returning
   success=false or by throwing, the call still succeeds and the application
   ends with status MANUAL_REVIEW and no credit_risk_score. *)
C2_Original_ServiceFailureRecovered ==
    (Done /\ service_outcome \in {"failed", "threw"})
        => /\ Succeeded
           /\ db.application.status = "MANUAL_REVIEW"
           /\ db.application.credit_risk_score = None

(* C2 as amended: when the service returns success=false the call succeeds
   with decision MANUAL_REVIEW and the application is committed with status
   MANUAL_REVIEW and no credit_risk_score, unless the commit itself fails;
   when the service throws, or the commit fails, the call is rolled back and
   returns {success: false, error}. *)
C2_ServiceFailureRecovered ==
    Done =>
        /\ (service_outcome = "failed" /\ "commit failed" \notin exceptions)
              => /\ Succeeded
                 /\ result[1].decision = "MANUAL_REVIEW"
                 /\ db.application.status = "MANUAL_REVIEW"
                 /\ db.application.credit_risk_score = None
        /\ (service_outcome = "threw"
               \/ (service_outcome = "failed" /\ "commit failed" \in exceptions))
              => /\ Failed
                 /\ result[1].error = error
                 /\ db = db_at_call

C2_Witness ==
    /\ Succeeded
    /\ service_outcome = "failed"
    /\ db_at_call.application.credit_risk_score # None
    /\ db.application.credit_risk_score = None
    /\ db.application.status = "MANUAL_REVIEW"

(* C8: a successful call returns MANUAL_REVIEW when the assessment failed,
   APPROVED for risk_level LOW with risk_score >= 70, MANUAL_REVIEW for
   MEDIUM with risk_score >= 50 and REJECTED otherwise, and the committed
   application.status is the returned decision. *)
C8_DecisionTable ==
    Succeeded =>
        LET r == result[1].credit_risk
            expected ==
                IF ~ r.success THEN "MANUAL_REVIEW"
                ELSE IF r.risk_level = "LOW" /\ r.risk_score >= 70 THEN "APPROVED"
                ELSE IF r.risk_level = "MEDIUM" /\ r.risk_score >= 50 THEN "MANUAL_REVIEW"
                ELSE "REJECTED"
        IN  /\ result[1].decision = expected
            /\ db.application.status = result[1].decision
            /\ (r.success /\ r.risk_level = "HIGH") => result[1].decision = "REJECTED"

C8_Witness ==
    /\ Succeeded
    /\ result[1].credit_risk.success
    /\ result[1].credit_risk.risk_level = "LOW"
    /\ result[1].credit_risk.risk_score = 70
    /\ db.application.status = "APPROVED"

(* C10: for an id the store does not know, process_application returns
   {success: false, error: 'Application not found'}; the credit-risk service
   is not called, nothing is loaded or pending, and the store is unchanged. *)
C10_NotFoundNoSideEffects ==
    (ppc \notin {"off", "idle"} /\ application_id # db_at_call.application.id)
        => /\ service_outcome = "not called"
           /\ exceptions = {}
           /\ session = EmptySession
           /\ db = db_at_call
           /\ Done => result = Some([success |-> FALSE, error |-> "Application not found"])

C10_Witness ==
    /\ Done
    /\ application_id = "A2"
    /\ db.report # None
    /\ result = Some([success |-> FALSE, error |-> "Application not found"])

ReportOffers == db.report[1].alternative_offers

(* C11: after a successful call that built the report and found no rejection
   reason, the stored report, reused from earlier calls or new, carries no
   alternative offers. *)
C11_NoReasonsNoOffers ==
    (Succeeded /\ ai_report # None /\ db.report # None
               /\ db.report[1].rejection_reasons = Some(<<>>))
        => (ReportOffers = None \/ ReportOffers = Some(<<>>))

----------------------------------------------------------------------------
(* Properties of the rule checks *)

\* _check_loan_affordability has run in this call
AffordabilityChecked ==
    pc \in {"_check_loan_to_value_ratio", "_check_employment_stability",
            "_generate_explanation", "_generate_alternative_offers",
            "_calculate_financial_health_score", "_determine_final_status",
            "returned", "raised"}

ReasonCount(factor) ==
    Cardinality({i \in 1..Len(analysis.rejection_reasons) :
                    analysis.rejection_reasons[i].factor = factor})

HasFactor(factor) == ReasonCount(factor) > 0

\* monthly_salary * 0.5 - existing_emi <= 0
NoEmiCapacity == Field("monthly_salary", 0) - 2 * Field("existing_emi", 0) <= 0

(* C12: once the affordability check has run, an application with
   monthly_salary * 0.5 - existing_emi <= 0 has exactly one "Debt Burden"
   reason, of severity High, no "Loan Affordability" reason and no "Reduced
   Loan Amount" offer; no result has both "Debt Burden" and "Loan
   Affordability"; and a "Reduced Loan Amount" offer comes only with a
   "Loan Affordability" reason. *)
C12_DebtBurdenStops ==
    AffordabilityChecked =>
        /\ NoEmiCapacity
              => /\ ReasonCount("Debt Burden") = 1
                 /\ HasReason("Debt Burden", "High")
                 /\ ~ HasFactor("Loan Affordability")
                 /\ ~ HasOffer("Reduced Loan Amount")
        /\ ~ (HasFactor("Debt Burden") /\ HasFactor("Loan Affordability"))
        /\ HasOffer("Reduced Loan Amount") => HasFactor("Loan Affordability")

C12_Witness ==
    /\ Returned
    /\ NoEmiCapacity
    /\ Field("monthly_salary", 0) > 0
    /\ Field("loan_amount", 0) > 0
    /\ HasReason("Debt Burden", "High")
    /\ ~ HasOffer("Reduced Loan Amount")

\* the check that appends a reason with this factor, by its place in
\* analyze_application
CheckOf(factor) ==
    CASE factor \in {"Credit History", "Credit Score"}    -> 1
      [] factor \in {"Debt Burden", "Loan Affordability"} -> 2
      [] factor = "Loan-to-Value Ratio"                   -> 3
      [] factor = "Income Level"                          -> 4
      [] OTHER                                            -> 0

IsReasonLine(line) == line.kind = "reason"

ExplanationWritten ==
    pc \in {"_generate_alternative_offers", "_calculate_financial_health_score",
            "_determine_final_status", "returned"}

(* C13: in every result the reasons come in the order of the checks, credit
   profile, affordability, loan-to-value, employment stability, each check
   contributing at most one, hence at most four; and the explanation lists
   the reasons in the same order. *)
C13_ReasonsInCheckOrder ==
    LET reasons == analysis.rejection_reasons
    IN  /\ Returned =>
              /\ \A i \in 1..Len(reasons) : CheckOf(reasons[i].factor) \in 1..4
              /\ \A i, j \in 1..Len(reasons) :
                     i < j => CheckOf(reasons[i].factor) < CheckOf(reasons[j].factor)
              /\ Len(reasons) <= 4
        /\ ExplanationWritten =>
              SelectSeq(analysis.generated_explanation, IsReasonLine)
                  = ReasonLines(reasons)

C13_Witness ==
    /\ Returned
    /\ Len(analysis.rejection_reasons) = 4
    /\ analysis.rejection_reasons[1].factor = "Credit Score"
    /\ analysis.rejection_reasons[4].factor = "Income Level"
    /\ Len(SelectSeq(analysis.generated_explanation, IsReasonLine)) = 4

====
